---- MODULE Spec2Model ----
(***************************************************************************)
(* WebGPU bootstrap layer: the four main() variants of the repository, the *)
(* callback-to-blocking request wrappers, the surface binder, the          *)
(* capability inspector and the teardown of the Context.                   *)
(*                                                                         *)
(* A handle is "NULL" or "h" (a valid backend object).  Every backend call *)
(* is appended to `calls`; every release of a valid handle is counted in   *)
(* `released`.  A backend call on a NULL handle is undefined behaviour:    *)
(* the model lets it either crash the process or carry on.                 *)
(***************************************************************************)
EXTENDS Integers, Sequences, FiniteSets, TLC

VARIABLES
    variant,      \* which main() is running
    emscripten,   \* build: __EMSCRIPTEN__ defined
    delivery,     \* backend: completion handler runs inside the request call or later
    gpu,          \* backend: the capability data of the GPU (immutable)
    pc,           \* index of the next operation in Prog[variant]
    halt,         \* "running", "exited", "aborted" (failed assert), "crashed"
    exitStatus,   \* value returned by main once halt = "exited"
    instance,     \* WGPUInstance local of main / initWebGPU
    adapter,      \* WGPUAdapter local of main / initWebGPU
    context,      \* Context {window, device, queue, surface}; in the variants
                  \* without a Context, device/queue are the locals of main
    initResult,   \* part_000: what initApp returned ("unset", "true", "false")
    adapterData,  \* AdapterRequestData / UserData of requestAdapterSync
    deviceData,   \* DeviceRequestData of requestDeviceSync
    pending,      \* requests issued whose completion handler has not run yet
    returned,     \* wrappers that have returned a result, with the flag they saw
    reported,     \* the status the backend handed to each completion handler
    staleWrites,  \* completion handler writes into a request record whose frame is gone
    released,     \* per object: number of release calls on a valid handle
    calls,        \* backend calls in program order
    log,          \* diagnostics printed by the callbacks and the init code
    surfaceDesc,  \* the locals of create_wgpu_surface: what it saw, the descriptor it built
    windowing,    \* whether the window handed to create_wgpu_surface was on a
                  \* supported backend with its native handles present
    reports,      \* what inspectAdapter / inspectDevice printed last
    heapLive,     \* feature buffers allocated and not freed
    lostState,    \* device-lost callback: "unarmed", "armed", "fired"
    errCount,     \* uncaptured device errors raised so far
    unhandledErrors \* of those, raised while no error callback was registered

vars == << variant, emscripten, delivery, gpu, pc, halt, exitStatus, instance, adapter,
           context, initResult, adapterData, deviceData, pending, returned,
           reported,
           staleWrites, released, calls, log, surfaceDesc, windowing, reports,
           heapLive,
           lostState, errCount, unhandledErrors >>

Variants == {"main_c", "part_002", "part_001", "part_000"}
Objects  == {"instance", "adapter", "device", "queue", "surface", "window"}
Statuses == {"Success", "Error"}

-----------------------------------------------------------------------------
(* The straight-line order of operations of each main(), callees inlined.  *)

\* main.c with the adapter inspected before the instance is released.
Prog_main_c_inspectFirst ==
    << "wgpuCreateInstance", "wgpuInstanceRequestAdapter", "busyWaitAdapter",
       "emscriptenWaitAdapter", "adapterRequestReturn", "inspectAdapter",
       "wgpuInstanceRelease", "wgpuAdapterRelease", "returnFromMain" >>

\* src/main.c: main, with its own requestAdapterSync (busy wait, then the
\* Emscripten wait, then the assert).
Prog_main_c ==
    << "wgpuCreateInstance", "wgpuInstanceRequestAdapter", "busyWaitAdapter",
       "emscriptenWaitAdapter", "adapterRequestReturn", "wgpuInstanceRelease",
       "inspectAdapter", "wgpuAdapterRelease", "returnFromMain" >>

\* part_002 with the adapter inspected after it has been released.
Prog_part_002_inspectAfterRelease ==
    << "wgpuCreateInstance", "wgpuInstanceRequestAdapter",
       "emscriptenWaitAdapter", "adapterRequestReturn", "wgpuInstanceRelease",
       "wgpuAdapterRequestDevice", "emscriptenWaitDevice",
       "deviceRequestReturn", "wgpuDeviceSetUncapturedErrorCallback",
       "wgpuAdapterRelease", "inspectAdapter", "inspectDevice",
       "wgpuDeviceRelease", "returnFromMain" >>

\* part_002 with the instance released as soon as the adapter request has
\* been issued, before the wrapper has seen it complete.
Prog_part_002_releaseEarly ==
    << "wgpuCreateInstance", "wgpuInstanceRequestAdapter", "wgpuInstanceRelease",
       "emscriptenWaitAdapter", "adapterRequestReturn",
       "inspectAdapter", "wgpuAdapterRequestDevice", "emscriptenWaitDevice",
       "deviceRequestReturn", "wgpuDeviceSetUncapturedErrorCallback",
       "wgpuAdapterRelease", "inspectDevice", "wgpuDeviceRelease",
       "returnFromMain" >>

\* part_002 with the device release forgotten.
Prog_part_002_noDeviceRelease ==
    << "wgpuCreateInstance", "wgpuInstanceRequestAdapter",
       "emscriptenWaitAdapter", "adapterRequestReturn", "wgpuInstanceRelease",
       "inspectAdapter", "wgpuAdapterRequestDevice", "emscriptenWaitDevice",
       "deviceRequestReturn", "wgpuDeviceSetUncapturedErrorCallback",
       "wgpuAdapterRelease", "inspectDevice", "returnFromMain" >>

\* src/unnamed/part_002: main up to the device, then release.
Prog_part_002 ==
    << "wgpuCreateInstance", "wgpuInstanceRequestAdapter",
       "emscriptenWaitAdapter", "adapterRequestReturn", "wgpuInstanceRelease",
       "inspectAdapter", "wgpuAdapterRequestDevice", "emscriptenWaitDevice",
       "deviceRequestReturn", "wgpuDeviceSetUncapturedErrorCallback",
       "wgpuAdapterRelease", "inspectDevice", "wgpuDeviceRelease",
       "returnFromMain" >>

\* part_001 with the two releases swapped.
Prog_part_001_deviceFirst ==
    << "wgpuCreateInstance", "wgpuInstanceRequestAdapter",
       "emscriptenWaitAdapter", "adapterRequestReturn", "wgpuInstanceRelease",
       "inspectAdapter", "wgpuAdapterRequestDevice", "emscriptenWaitDevice",
       "deviceRequestReturn", "wgpuDeviceSetUncapturedErrorCallback",
       "wgpuAdapterRelease", "inspectDevice", "wgpuDeviceGetQueue",
       "wgpuQueueOnSubmittedWorkDone", "submitCommand", "tickDevice",
       "wgpuDeviceRelease", "wgpuQueueRelease", "returnFromMain" >>

\* src/unnamed/part_001: main with the queue and one command submission.
\* part_001 with a retry: the adapter is requested a second time after the
\* first request has returned.
Prog_part_001_retryAdapter ==
    << "wgpuCreateInstance", "wgpuInstanceRequestAdapter",
       "emscriptenWaitAdapter", "adapterRequestReturn",
       "wgpuInstanceRequestAdapter", "emscriptenWaitAdapter",
       "adapterRequestReturn", "wgpuInstanceRelease",
       "inspectAdapter", "wgpuAdapterRequestDevice", "emscriptenWaitDevice",
       "deviceRequestReturn", "wgpuDeviceSetUncapturedErrorCallback",
       "wgpuAdapterRelease", "inspectDevice", "wgpuDeviceGetQueue",
       "wgpuQueueOnSubmittedWorkDone", "submitCommand", "tickDevice",
       "wgpuQueueRelease", "wgpuDeviceRelease", "returnFromMain" >>

Prog_part_001 ==
    << "wgpuCreateInstance", "wgpuInstanceRequestAdapter",
       "emscriptenWaitAdapter", "adapterRequestReturn", "wgpuInstanceRelease",
       "inspectAdapter", "wgpuAdapterRequestDevice", "emscriptenWaitDevice",
       "deviceRequestReturn", "wgpuDeviceSetUncapturedErrorCallback",
       "wgpuAdapterRelease", "inspectDevice", "wgpuDeviceGetQueue",
       "wgpuQueueOnSubmittedWorkDone", "submitCommand", "tickDevice",
       "wgpuQueueRelease", "wgpuDeviceRelease", "returnFromMain" >>

\* part_000 with the instance released as soon as it has been created,
\* before the surface is created and the adapter requested.
Prog_part_000_releaseBeforeSurface ==
    << "createSDLWindow", "wgpuCreateInstance", "wgpuInstanceRelease",
       "create_wgpu_surface", "wgpuInstanceCreateSurface",
       "wgpuInstanceRequestAdapter", "emscriptenWaitAdapter",
       "adapterRequestReturn", "inspectAdapter",
       "wgpuAdapterRequestDevice", "emscriptenWaitDevice",
       "deviceRequestReturn", "wgpuDeviceSetUncapturedErrorCallback",
       "wgpuAdapterRelease", "wgpuSurfaceConfigure", "inspectDevice",
       "wgpuDeviceGetQueue", "wgpuQueueOnSubmittedWorkDone", "initAppReturn",
       "submitCommand", "tickDevice", "mainLoop", "closeContext",
       "returnFromMain" >>

\* part_000 with the queue retrieved before the surface is configured.
Prog_part_000_queueFirst ==
    << "createSDLWindow", "wgpuCreateInstance", "create_wgpu_surface",
       "wgpuInstanceCreateSurface", "wgpuInstanceRequestAdapter", "emscriptenWaitAdapter",
       "adapterRequestReturn", "inspectAdapter", "wgpuInstanceRelease",
       "wgpuAdapterRequestDevice", "emscriptenWaitDevice",
       "deviceRequestReturn", "wgpuDeviceSetUncapturedErrorCallback",
       "wgpuAdapterRelease", "wgpuDeviceGetQueue", "inspectDevice",
       "wgpuSurfaceConfigure", "wgpuQueueOnSubmittedWorkDone", "initAppReturn",
       "submitCommand", "tickDevice", "mainLoop", "closeContext",
       "returnFromMain" >>

\* src/unnamed/part_000: main -> initApp -> createSDLWindow, initWebGPU
\* (src/webgpu-utils.c), then the command submission and the endless main
\* loop.  closeContext and `return 0` come after `while(1) {}`, which has
\* no exit: main never gets from "mainLoop" to "closeContext".
Prog_part_000 ==
    << "createSDLWindow", "wgpuCreateInstance", "create_wgpu_surface",
       "wgpuInstanceCreateSurface", "wgpuInstanceRequestAdapter", "emscriptenWaitAdapter",
       "adapterRequestReturn", "inspectAdapter", "wgpuInstanceRelease",
       "wgpuAdapterRequestDevice", "emscriptenWaitDevice",
       "deviceRequestReturn", "wgpuDeviceSetUncapturedErrorCallback",
       "wgpuAdapterRelease", "wgpuSurfaceConfigure", "inspectDevice",
       "wgpuDeviceGetQueue", "wgpuQueueOnSubmittedWorkDone", "initAppReturn",
       "submitCommand", "tickDevice", "mainLoop", "closeContext",
       "returnFromMain" >>

Prog ==
    [v \in Variants |->
        CASE v = "main_c"   -> Prog_main_c
          [] v = "part_002" -> Prog_part_002
          [] v = "part_001" -> Prog_part_001
          [] v = "part_000" -> Prog_part_000]

\* The operation main is about to perform.
Op == IF halt = "running" /\ pc \in 1..Len(Prog[variant])
      THEN Prog[variant][pc] ELSE "none"

IndexOf(v, label) == CHOOSE i \in 1..Len(Prog[v]) : Prog[v][i] = label

-----------------------------------------------------------------------------
(* Helpers shared by the operations.                                       *)

\* A backend call on a NULL handle is undefined: the process may crash or
\* the call may go through.
NullOutcomes(h) == IF h = "NULL" THEN {"crash", "continue"} ELSE {"continue"}

Call(fn, obj, h) == [fn |-> fn, obj |-> obj, arg |-> h]

HasCall(fn) == \E i \in 1..Len(calls) : calls[i].fn = fn

CountCalls(fn) == Cardinality({i \in 1..Len(calls) : calls[i].fn = fn})

MaxFeatureCount == 1

\* How many times in a row the teardown specification calls closeContext.
MaxCloseCalls == 2

NoSurfaceDesc == [platform |-> "none", driver |-> "none", tag |-> "none",
                  nativeNull |-> FALSE]

NoReport == [limits |-> FALSE, features |-> -1, properties |-> FALSE]

\* Control transfers of main.
Advance     == pc' = pc + 1 /\ UNCHANGED << halt, exitStatus >>
Jump(label) == pc' = IndexOf(variant, label) /\ UNCHANGED << halt, exitStatus >>
Exit(s)     == halt' = "exited" /\ exitStatus' = s /\ UNCHANGED pc
Crash       == halt' = "crashed" /\ UNCHANGED << pc, exitStatus >>
Abort       == halt' = "aborted" /\ UNCHANGED << pc, exitStatus >>

env       == << variant, emscripten, delivery, gpu >>
requests  == << adapterData, deviceData, pending, returned, reported,
                staleWrites >>
inspector == << reports, heapLive >>
notifs    == << lostState, errCount, unhandledErrors >>

-----------------------------------------------------------------------------
Init ==
    /\ variant \in Variants
    /\ emscripten \in BOOLEAN
    /\ delivery \in {"sync", "async"}
    /\ gpu \in [limitsOk : BOOLEAN, featureCount : 0..MaxFeatureCount]
    /\ pc = 1
    /\ halt = "running"
    /\ exitStatus = 0
    /\ instance = "NULL"
    /\ adapter = "NULL"
    /\ context = [window |-> "NULL", device |-> "NULL", queue |-> "NULL",
                  surface |-> "NULL"]
    /\ initResult = "unset"
    /\ adapterData = [adapter |-> "NULL", requestEnded |-> FALSE, live |-> FALSE]
    /\ deviceData = [device |-> "NULL", requestEnded |-> FALSE, live |-> FALSE]
    /\ pending = {}
    /\ returned = {}
    /\ reported = [adapter |-> "none", device |-> "none"]
    /\ staleWrites = 0
    /\ released = [o \in Objects |-> 0]
    /\ calls = << >>
    /\ log = << >>
    /\ surfaceDesc = NoSurfaceDesc
    /\ windowing = "unset"
    /\ reports = [adapter |-> NoReport, device |-> NoReport]
    /\ heapLive = 0
    /\ lostState = "unarmed"
    /\ errCount = 0
    /\ unhandledErrors = 0

-----------------------------------------------------------------------------
(* Window and instance.                                                    *)

\* createSDLWindow, and initApp's `if (!context->window) return false`.
\* main of part_000 ignores what initApp returns and goes on.
createSDLWindow ==
    /\ Op = "createSDLWindow"
    /\ \E sdlInitOk \in BOOLEAN, win \in {"NULL", "h"} :
          LET window == IF sdlInitOk THEN win ELSE "NULL" IN
          /\ context' = [context EXCEPT !.window = window]
          /\ IF window = "NULL"
             THEN /\ log' = Append(log, IF sdlInitOk
                                        THEN "Window could not be created"
                                        ELSE "SDL could not initialize")
                  /\ initResult' = "false"
                  /\ Jump("submitCommand")
             ELSE /\ UNCHANGED << log, initResult >>
                  /\ Advance
    /\ UNCHANGED << env, instance, adapter, requests, released, calls,
                    surfaceDesc, windowing, inspector, notifs >>

\* wgpuCreateInstance and the `if (!instance)` that follows it: the three
\* stand-alone mains return 1, initWebGPU returns NULL (false) to initApp.
wgpuCreateInstance ==
    /\ Op = "wgpuCreateInstance"
    /\ \E h \in {"NULL", "h"} :
          /\ instance' = h
          /\ calls' = Append(calls, Call("wgpuCreateInstance", "instance", h))
          /\ IF h = "NULL"
             THEN /\ log' = Append(log, "Could not initialize WebGPU!")
                  /\ IF variant = "part_000"
                     THEN initResult' = "false" /\ Jump("submitCommand")
                     ELSE UNCHANGED initResult /\ Exit(1)
             ELSE /\ UNCHANGED << log, initResult >>
                  /\ Advance
    /\ UNCHANGED << env, adapter, context, requests, released, surfaceDesc, windowing,
                    inspector, notifs >>

-----------------------------------------------------------------------------
(* Surface binder.                                                         *)

Platforms == {"win32", "apple", "linux", "other"}
\* Video drivers SDL can report on each platform.
PlatformDrivers(platform) ==
    CASE platform = "win32" -> {"windows"}
      [] platform = "apple" -> {"cocoa"}
      [] platform = "linux" -> {"wayland", "x11", "kmsdrm"}
      [] OTHER -> {"android"}

\* The windowing backend that is really active, as the window system sees it.
ActiveBackend(platform, driver) ==
    CASE platform = "win32" -> "windows"
      [] platform = "apple" -> "apple"
      [] platform = "linux" /\ driver = "wayland" -> "wayland"
      [] platform = "linux" /\ driver = "x11" -> "x11"
      [] OTHER -> "unknown"

\* The descriptor variant chained by create_wgpu_surface: the #if / #elif
\* chain over SDL_PLATFORM_*, and on Linux the strcmp against "wayland" with
\* X11 as the else branch.  No branch leaves nextInChain unset.
SurfaceDescriptorTag(platform, driver) ==
    CASE platform = "win32" -> "WindowsHWND"
      [] platform = "apple" -> "MetalLayer"
      [] platform = "linux" ->
            IF driver = "wayland" THEN "WaylandSurface" ELSE "XlibWindow"
      [] OTHER -> "none"

\* The tag the specification asks for, per active backend.
ExpectedTag(backend) ==
    CASE backend = "windows" -> "WindowsHWND"
      [] backend = "apple"   -> "MetalLayer"
      [] backend = "wayland" -> "WaylandSurface"
      [] backend = "x11"     -> "XlibWindow"
      [] OTHER -> "none"

\* What the backend finds at surface_desc.nextInChain.  On Linux wayland_desc
\* and x11_desc are locals of the if / else blocks, dead when the call is
\* made: the chain dangles and its sType is whatever the stack holds.
ChainOutcomes(platform, tag) ==
    IF platform = "linux" THEN {tag, "indeterminate"} ELSE {tag}

\* create_wgpu_surface up to the call: SDL_GetWindowProperties and the
\* descriptor chained for the platform.  No branch rejects the window.
create_wgpu_surface ==
    /\ Op = "create_wgpu_surface"
    /\ \E platform \in Platforms, nativeNull \in BOOLEAN :
       \E driver \in PlatformDrivers(platform) :
       \E seen \in ChainOutcomes(platform, SurfaceDescriptorTag(platform, driver)) :
          /\ surfaceDesc' = [platform |-> platform, driver |-> driver,
                             tag |-> seen, nativeNull |-> nativeNull]
          /\ windowing' = IF ActiveBackend(platform, driver) # "unknown"
                             /\ ~nativeNull
                          THEN "supported" ELSE "unsupported"
    /\ Advance
    /\ UNCHANGED << env, instance, adapter, context, initResult, requests,
                    released, calls, log, inspector, notifs >>

\* `return wgpuInstanceCreateSurface(instance, &surface_desc)`, stored by
\* initWebGPU in context->surface without a look at it.  surface_desc is a
\* local of create_wgpu_surface and ends with it.
wgpuInstanceCreateSurface ==
    /\ Op = "wgpuInstanceCreateSurface"
    /\ calls' = Append(calls, Call("wgpuInstanceCreateSurface", "instance", instance))
    /\ \E s \in {"NULL", "h"} : context' = [context EXCEPT !.surface = s]
    /\ surfaceDesc' = NoSurfaceDesc
    /\ Advance
    /\ UNCHANGED << env, instance, adapter, initResult, requests, released,
                    log, windowing, inspector, notifs >>

-----------------------------------------------------------------------------
(* Request bridge: requestAdapterSync.                                     *)

\* A handler that signals completion without storing the adapter.
onAdapterRequestEnded_flagOnly(data, status) ==
    [data EXCEPT !.requestEnded = TRUE]

\* onAdapterRequestEnded: the slot is written on Success only, then the
\* completion flag is set.
onAdapterRequestEnded(data, status) ==
    [data EXCEPT !.adapter = IF status = "Success" THEN "h" ELSE @,
                 !.requestEnded = TRUE]

\* onDeviceRequestEnded, the same for the device.
onDeviceRequestEnded(data, status) ==
    [data EXCEPT !.device = IF status = "Success" THEN "h" ELSE @,
                 !.requestEnded = TRUE]

\* The assert compiled out (NDEBUG): the wrapper returns whatever the flag.
requestEndedAsserted_off(data) == TRUE

\* assert(data.requestEnded) before the wrapper returns the slot.  No build
\* file of the repository defines NDEBUG, so a false flag aborts the process.
requestEndedAsserted(data) == data.requestEnded

\* The flag tested by the Emscripten wait loop of requestDeviceSync:
\* `while (!adapterData.requestEnded)`, the adapter request's flag.
DeviceWaitFlag == adapterData.requestEnded

\* The backend can run a pending completion handler now: on a native
\* backend at any time (possibly from another thread); in the browser only
\* while main has yielded in emscripten_sleep.
Yielding ==
    \/ Op = "emscriptenWaitAdapter" /\ ~adapterData.requestEnded
    \/ Op = "emscriptenWaitDevice" /\ ~DeviceWaitFlag
    \/ Op = "tickDevice"

CanDeliver == halt = "running" /\ (emscripten => Yielding)

\* requestAdapterSync up to and including wgpuInstanceRequestAdapter.  A
\* backend that completes synchronously runs onAdapterRequestEnded inside
\* the call.
wgpuInstanceRequestAdapter ==
    /\ Op = "wgpuInstanceRequestAdapter"
    /\ calls' = Append(calls, Call("wgpuInstanceRequestAdapter", "instance", instance))
    /\ LET fresh == [adapter |-> "NULL", requestEnded |-> FALSE, live |-> TRUE] IN
       IF delivery = "sync"
       THEN \E status \in Statuses :
               /\ adapterData' = onAdapterRequestEnded(fresh, status)
               /\ reported' = [reported EXCEPT !.adapter = status]
               /\ log' = IF status = "Success" THEN log
                         ELSE Append(log, "Could not get WebGPU adapter")
               /\ UNCHANGED pending
       ELSE /\ adapterData' = fresh
            /\ pending' = pending \cup {"adapter"}
            /\ UNCHANGED << log, reported >>
    /\ Advance
    /\ UNCHANGED << env, instance, adapter, context, initResult, deviceData,
                    returned, staleWrites, released, surfaceDesc, windowing, inspector,
                    notifs >>

\* The backend completes the adapter request later: onAdapterRequestEnded
\* runs against the record whose address it was given.
AdapterRequestEnds ==
    /\ "adapter" \in pending
    /\ CanDeliver
    /\ pending' = pending \ {"adapter"}
    /\ \E status \in Statuses :
          /\ IF adapterData.live
             THEN adapterData' = onAdapterRequestEnded(adapterData, status)
                  /\ UNCHANGED staleWrites
             ELSE staleWrites' = staleWrites + 1 /\ UNCHANGED adapterData
          /\ reported' = [reported EXCEPT !.adapter = status]
          /\ log' = IF status = "Success" THEN log
                    ELSE Append(log, "Could not get WebGPU adapter")
    /\ UNCHANGED << env, pc, halt, exitStatus, instance, adapter, context,
                    initResult, deviceData, returned, released, calls,
                    surfaceDesc, windowing, inspector, notifs >>

\* src/main.c only: `while (!userData.requestEnded) {}`.  The loop body is
\* empty, so while the flag is false nothing changes.
busyWaitAdapter ==
    /\ Op = "busyWaitAdapter"
    /\ adapterData.requestEnded
    /\ Advance
    /\ UNCHANGED << env, instance, adapter, context, initResult, requests,
                    released, calls, log, surfaceDesc, windowing, inspector, notifs >>

\* `#ifdef __EMSCRIPTEN__ while (!adapterData.requestEnded) emscripten_sleep(100);`
\* A native build has no such loop.
emscriptenWaitAdapter ==
    /\ Op = "emscriptenWaitAdapter"
    /\ emscripten => adapterData.requestEnded
    /\ Advance
    /\ UNCHANGED << env, instance, adapter, context, initResult, requests,
                    released, calls, log, surfaceDesc, windowing, inspector, notifs >>

\* The assert and `return adapterData.adapter`; the record dies with the
\* frame of requestAdapterSync.
adapterRequestReturn ==
    /\ Op = "adapterRequestReturn"
    /\ IF requestEndedAsserted(adapterData)
       THEN /\ adapter' = adapterData.adapter
            /\ adapterData' = [adapterData EXCEPT !.live = FALSE]
            /\ returned' = returned \cup
                  {[req |-> "adapter", flag |-> adapterData.requestEnded,
                    inflight |-> "adapter" \in pending,
                    result |-> adapterData.adapter]}
            /\ Advance
       ELSE /\ UNCHANGED << adapter, adapterData, returned >>
            /\ Abort
    /\ UNCHANGED << env, instance, context, initResult, deviceData, pending,
                    reported, staleWrites, released, calls, log, surfaceDesc, windowing, inspector,
                    notifs >>

-----------------------------------------------------------------------------
(* Releases.                                                               *)

\* One wgpu*Release call on handle h of object obj.
ReleaseCall(fn, obj, h) ==
    /\ calls' = Append(calls, Call(fn, obj, h))
    /\ \E outcome \in NullOutcomes(h) :
          IF outcome = "crash"
          THEN Crash /\ UNCHANGED released
          ELSE /\ released' = [released EXCEPT
                                  ![obj] = IF h = "NULL" THEN @ ELSE @ + 1]
               /\ Advance

wgpuInstanceRelease ==
    /\ Op = "wgpuInstanceRelease"
    /\ ReleaseCall("wgpuInstanceRelease", "instance", instance)
    /\ UNCHANGED << env, instance, adapter, context, initResult, requests,
                    log, surfaceDesc, windowing, inspector, notifs >>

wgpuAdapterRelease ==
    /\ Op = "wgpuAdapterRelease"
    /\ ReleaseCall("wgpuAdapterRelease", "adapter", adapter)
    /\ UNCHANGED << env, instance, adapter, context, initResult, requests,
                    log, surfaceDesc, windowing, inspector, notifs >>

wgpuQueueRelease ==
    /\ Op = "wgpuQueueRelease"
    /\ ReleaseCall("wgpuQueueRelease", "queue", context.queue)
    /\ UNCHANGED << env, instance, adapter, context, initResult, requests,
                    log, surfaceDesc, windowing, inspector, notifs >>

wgpuDeviceRelease ==
    /\ Op = "wgpuDeviceRelease"
    /\ ReleaseCall("wgpuDeviceRelease", "device", context.device)
    /\ UNCHANGED << env, instance, adapter, context, initResult, requests,
                    log, surfaceDesc, windowing, inspector, notifs >>

\* `return 0` at the end of main.
returnFromMain ==
    /\ Op = "returnFromMain"
    /\ Exit(0)
    /\ UNCHANGED << env, instance, adapter, context, initResult, requests,
                    released, calls, log, surfaceDesc, windowing, inspector, notifs >>

-----------------------------------------------------------------------------
(* Capability inspector.                                                   *)


\* Only the inspectors of the first webgpu-utils.c (the one with
\* initWebGPU, linked with part_000) call free(features).
InspectorFrees(v) == v = "part_000"

\* An inspectAdapter that returns as soon as the limits query fails.
InspectAdapterReport_limitsFatal(emsc, limitsOk, featureCount, mallocOk) ==
    [limits     |-> ~emsc /\ limitsOk,
     features   |-> IF mallocOk /\ (emsc \/ limitsOk) THEN featureCount ELSE -1,
     properties |-> mallocOk /\ (emsc \/ limitsOk)]

\* An enumeration that hands the features out once: a later call on the
\* same adapter finds the list empty.
InspectAdapterReport_consuming(emsc, limitsOk, featureCount, mallocOk) ==
    [limits     |-> ~emsc /\ limitsOk,
     features   |-> IF ~mallocOk THEN -1
                    ELSE IF reports.adapter.features = -1 THEN featureCount ELSE 0,
     properties |-> mallocOk]

\* What inspectAdapter prints: limits unless Emscripten or a failed query;
\* a null buffer returns before the features and the properties.
InspectAdapterReport(emsc, limitsOk, featureCount, mallocOk) ==
    [limits     |-> ~emsc /\ limitsOk,
     features   |-> IF mallocOk THEN featureCount ELSE -1,
     properties |-> mallocOk]

\* What inspectDevice prints: features first, and the limits only after a
\* successful allocation.
InspectDeviceReport(limitsOk, featureCount, mallocOk) ==
    [limits     |-> mallocOk /\ limitsOk,
     features   |-> IF mallocOk THEN featureCount ELSE -1,
     properties |-> FALSE]

\* An inspectAdapter without the `if (!features) return`: the fill
\* enumeration and the properties query are made whatever malloc returned.
InspectAdapterCalls_fillAlways(emsc, mallocOk, h) ==
    (IF emsc THEN << >> ELSE << Call("wgpuAdapterGetLimits", "adapter", h) >>)
    \o << Call("wgpuAdapterEnumerateFeatures", "adapter", h),
          Call("wgpuAdapterEnumerateFeatures", "adapter", h),
          Call("wgpuAdapterGetProperties", "adapter", h) >>

InspectAdapterCalls(emsc, mallocOk, h) ==
    (IF emsc THEN << >> ELSE << Call("wgpuAdapterGetLimits", "adapter", h) >>)
    \o << Call("wgpuAdapterEnumerateFeatures", "adapter", h) >>
    \o (IF mallocOk
        THEN << Call("wgpuAdapterEnumerateFeatures", "adapter", h),
                Call("wgpuAdapterGetProperties", "adapter", h) >>
        ELSE << >>)

InspectDeviceCalls(mallocOk, h) ==
    << Call("wgpuDeviceEnumerateFeatures", "device", h) >>
    \o (IF mallocOk
        THEN << Call("wgpuDeviceEnumerateFeatures", "device", h),
                Call("wgpuDeviceGetLimits", "device", h) >>
        ELSE << >>)

\* One call of inspectAdapter on the adapter held; `after` is what the
\* caller does when the call returns.
inspectAdapterBody(after) ==
    /\ \E outcome \in NullOutcomes(adapter), mallocOk \in BOOLEAN :
          IF outcome = "crash"
          THEN /\ calls' = Append(calls,
                       IF emscripten
                       THEN Call("wgpuAdapterEnumerateFeatures", "adapter", adapter)
                       ELSE Call("wgpuAdapterGetLimits", "adapter", adapter))
               /\ Crash
               /\ UNCHANGED << reports, heapLive, log >>
          ELSE /\ calls' = calls \o InspectAdapterCalls(emscripten, mallocOk, adapter)
               /\ reports' = [reports EXCEPT !.adapter =
                     InspectAdapterReport(emscripten, gpu.limitsOk, gpu.featureCount,
                                          mallocOk)]
               /\ heapLive' = IF mallocOk /\ ~InspectorFrees(variant)
                              THEN heapLive + 1 ELSE heapLive
               /\ log' = IF mallocOk THEN log
                         ELSE Append(log, "Failed to allocate ADAPTER feature list")
               /\ after
    /\ UNCHANGED << env, instance, adapter, context, initResult, requests,
                    released, surfaceDesc, windowing, notifs >>

inspectAdapter ==
    /\ Op = "inspectAdapter"
    /\ inspectAdapterBody(Advance)

\* One call of inspectDevice on the device held.
inspectDeviceBody(after) ==
    /\ \E outcome \in NullOutcomes(context.device), mallocOk \in BOOLEAN :
          IF outcome = "crash"
          THEN /\ calls' = Append(calls,
                       Call("wgpuDeviceEnumerateFeatures", "device", context.device))
               /\ Crash
               /\ UNCHANGED << reports, heapLive, log >>
          ELSE /\ calls' = calls \o InspectDeviceCalls(mallocOk, context.device)
               /\ reports' = [reports EXCEPT !.device =
                     InspectDeviceReport(gpu.limitsOk, gpu.featureCount, mallocOk)]
               /\ heapLive' = IF mallocOk /\ ~InspectorFrees(variant)
                              THEN heapLive + 1 ELSE heapLive
               /\ log' = IF mallocOk THEN log
                         ELSE Append(log, "Failed to allocate DEVICE feature list")
               /\ after
    /\ UNCHANGED << env, instance, adapter, context, initResult, requests,
                    released, surfaceDesc, windowing, notifs >>

inspectDevice ==
    /\ Op = "inspectDevice"
    /\ inspectDeviceBody(Advance)

-----------------------------------------------------------------------------
(* Request bridge: requestDeviceSync.                                      *)

\* requestDeviceSync up to and including wgpuAdapterRequestDevice.  The
\* descriptor carries onDeviceLost, so a device that comes into being has
\* its device-lost callback armed.  A request on a NULL adapter that does
\* not crash cannot succeed.
wgpuAdapterRequestDevice ==
    /\ Op = "wgpuAdapterRequestDevice"
    /\ calls' = Append(calls, Call("wgpuAdapterRequestDevice", "adapter", adapter))
    /\ \E outcome \in NullOutcomes(adapter) :
          IF outcome = "crash"
          THEN /\ Crash
               /\ UNCHANGED << deviceData, pending, log, lostState, reported >>
          ELSE LET fresh == [device |-> "NULL", requestEnded |-> FALSE,
                             live |-> TRUE] IN
               /\ Advance
               /\ IF delivery = "sync"
                  THEN \E status \in Statuses :
                          /\ adapter = "NULL" => status = "Error"
                          /\ deviceData' = onDeviceRequestEnded(fresh, status)
                          /\ reported' = [reported EXCEPT !.device = status]
                          /\ lostState' = IF status = "Success" THEN "armed"
                                          ELSE lostState
                          /\ log' = IF status = "Success" THEN log
                                    ELSE Append(log, "Could not get WebGPU device")
                          /\ UNCHANGED pending
                  ELSE /\ deviceData' = fresh
                       /\ pending' = pending \cup {"device"}
                       /\ UNCHANGED << log, lostState, reported >>
    /\ UNCHANGED << env, instance, adapter, context, initResult, adapterData,
                    returned, staleWrites, released, surfaceDesc, windowing, inspector,
                    errCount, unhandledErrors >>

\* The backend completes the device request later.
DeviceRequestEnds ==
    /\ "device" \in pending
    /\ CanDeliver
    /\ pending' = pending \ {"device"}
    /\ \E status \in Statuses :
          /\ adapter = "NULL" => status = "Error"
          /\ IF deviceData.live
             THEN deviceData' = onDeviceRequestEnded(deviceData, status)
                  /\ UNCHANGED staleWrites
             ELSE staleWrites' = staleWrites + 1 /\ UNCHANGED deviceData
          /\ reported' = [reported EXCEPT !.device = status]
          /\ lostState' = IF status = "Success" THEN "armed" ELSE lostState
          /\ log' = IF status = "Success" THEN log
                    ELSE Append(log, "Could not get WebGPU device")
    /\ UNCHANGED << env, pc, halt, exitStatus, instance, adapter, context,
                    initResult, adapterData, returned, released, calls,
                    surfaceDesc, windowing, inspector, errCount, unhandledErrors >>

\* `#ifdef __EMSCRIPTEN__ while (!adapterData.requestEnded) emscripten_sleep(100);`
emscriptenWaitDevice ==
    /\ Op = "emscriptenWaitDevice"
    /\ emscripten => DeviceWaitFlag
    /\ Advance
    /\ UNCHANGED << env, instance, adapter, context, initResult, requests,
                    released, calls, log, surfaceDesc, windowing, inspector, notifs >>

\* assert(deviceData.requestEnded) and `return deviceData.device`, stored by
\* the caller in context->device (or the local `device`).
deviceRequestReturn ==
    /\ Op = "deviceRequestReturn"
    /\ IF requestEndedAsserted(deviceData)
       THEN /\ context' = [context EXCEPT !.device = deviceData.device]
            /\ deviceData' = [deviceData EXCEPT !.live = FALSE]
            /\ returned' = returned \cup
                  {[req |-> "device", flag |-> deviceData.requestEnded,
                    inflight |-> "device" \in pending,
                    result |-> deviceData.device]}
            /\ Advance
       ELSE /\ UNCHANGED << context, deviceData, returned >>
            /\ Abort
    /\ UNCHANGED << env, instance, adapter, initResult, adapterData, pending,
                    reported, staleWrites, released, calls, log, surfaceDesc, windowing, inspector,
                    notifs >>

-----------------------------------------------------------------------------
(* Steps on the device, the surface and the queue.                         *)

\* A backend call on handle h that changes nothing the model tracks beyond
\* the call itself.
PlainCall(fn, obj, h) ==
    /\ calls' = Append(calls, Call(fn, obj, h))
    /\ \E outcome \in NullOutcomes(h) :
          IF outcome = "crash" THEN Crash ELSE Advance

wgpuDeviceSetUncapturedErrorCallback ==
    /\ Op = "wgpuDeviceSetUncapturedErrorCallback"
    /\ PlainCall("wgpuDeviceSetUncapturedErrorCallback", "device", context.device)
    /\ UNCHANGED << env, instance, adapter, context, initResult, requests,
                    released, log, surfaceDesc, windowing, inspector, notifs >>

\* wgpuSurfaceConfigure(context->surface, &config) with config.device =
\* context->device: both handles are handed to the backend.
wgpuSurfaceConfigure ==
    /\ Op = "wgpuSurfaceConfigure"
    /\ PlainCall("wgpuSurfaceConfigure", "surface",
                 IF context.surface = "NULL" \/ context.device = "NULL"
                 THEN "NULL" ELSE "h")
    /\ UNCHANGED << env, instance, adapter, context, initResult, requests,
                    released, log, surfaceDesc, windowing, inspector, notifs >>

\* `if (!context->queue)` of initWebGPU.
QueueMissing(q) == q = "NULL"

\* wgpuDeviceGetQueue; initWebGPU returns false on a null queue, the main
\* of part_001 goes on with whatever it got.
wgpuDeviceGetQueue ==
    /\ Op = "wgpuDeviceGetQueue"
    /\ calls' = Append(calls, Call("wgpuDeviceGetQueue", "device", context.device))
    /\ \E outcome \in NullOutcomes(context.device), q \in {"NULL", "h"} :
          /\ context.device = "NULL" => q = "NULL"
          /\ IF outcome = "crash"
             THEN Crash /\ UNCHANGED << context, initResult, log >>
             ELSE /\ context' = [context EXCEPT !.queue = q]
                  /\ IF variant = "part_000" /\ QueueMissing(q)
                     THEN /\ log' = Append(log, "Failed to get queue")
                          /\ initResult' = "false"
                          /\ Jump("submitCommand")
                     ELSE /\ UNCHANGED << log, initResult >>
                          /\ Advance
    /\ UNCHANGED << env, instance, adapter, requests, released, surfaceDesc, windowing,
                    inspector, notifs >>

wgpuQueueOnSubmittedWorkDone ==
    /\ Op = "wgpuQueueOnSubmittedWorkDone"
    /\ PlainCall("wgpuQueueOnSubmittedWorkDone", "queue", context.queue)
    /\ UNCHANGED << env, instance, adapter, context, initResult, requests,
                    released, log, surfaceDesc, windowing, inspector, notifs >>

\* `return true` of initWebGPU and of initApp.
initAppReturn ==
    /\ Op = "initAppReturn"
    /\ initResult' = "true"
    /\ Advance
    /\ UNCHANGED << env, instance, adapter, context, requests, released,
                    calls, log, surfaceDesc, windowing, inspector, notifs >>

-----------------------------------------------------------------------------
(* Command submission and the tick loop.                                   *)

kTickCount == 5

\* Command encoder on the device, then wgpuQueueSubmit on the queue.
submitCommand ==
    /\ Op = "submitCommand"
    /\ LET enc == Call("wgpuDeviceCreateCommandEncoder", "device", context.device)
           sub == Call("wgpuQueueSubmit", "queue", context.queue) IN
       \E o1 \in NullOutcomes(context.device), o2 \in NullOutcomes(context.queue) :
          IF o1 = "crash"
          THEN calls' = Append(calls, enc) /\ Crash
          ELSE /\ calls' = calls \o << enc, sub >>
               /\ IF o2 = "crash" THEN Crash ELSE Advance
    /\ UNCHANGED << env, instance, adapter, context, initResult, requests,
                    released, log, surfaceDesc, windowing, inspector, notifs >>

\* `for (i = 0; i < 5; ++i)`: wgpuDeviceTick on Dawn, emscripten_sleep in
\* the browser.  Nothing else happens in the loop.
TickCalls(n) == [i \in 1..n |->
                    IF emscripten THEN Call("emscripten_sleep", "none", "h")
                    ELSE Call("wgpuDeviceTick", "device", context.device)]

tickDevice ==
    /\ Op = "tickDevice"
    /\ \E outcome \in NullOutcomes(IF emscripten THEN "h" ELSE context.device) :
          IF outcome = "crash"
          THEN calls' = calls \o TickCalls(1) /\ Crash
          ELSE calls' = calls \o TickCalls(kTickCount) /\ Advance
    /\ UNCHANGED << env, instance, adapter, context, initResult, requests,
                    released, log, surfaceDesc, windowing, inspector, notifs >>

-----------------------------------------------------------------------------
(* Fatal-condition callbacks.                                              *)

MaxErrors == 2

LostMessage(reason, hasMessage) ==
    CASE reason = "Unknown" /\ hasMessage    -> "Device lost: reason Unknown (msg)"
      [] reason = "Unknown" /\ ~hasMessage   -> "Device lost: reason Unknown"
      [] reason = "Destroyed" /\ hasMessage  -> "Device lost: reason Destroyed (msg)"
      [] reason = "Destroyed" /\ ~hasMessage -> "Device lost: reason Destroyed"

\* A handler that reads the device it is given and clears it in the Context.
onDeviceLost_touchesDevice(reason, hasMessage) ==
    /\ log' = Append(log, LostMessage(reason, hasMessage))
    /\ context' = [context EXCEPT !.device = "NULL"]
    /\ calls' = Append(calls, Call("read *device", "device", context.device))
    /\ UNCHANGED released

\* onDeviceLost: `(void)device; (void)pUserData;` and three fprintf.
onDeviceLost(reason, hasMessage) ==
    /\ log' = Append(log, LostMessage(reason, hasMessage))
    /\ UNCHANGED << calls, context, released >>

\* A handler that gives the device up when an error is reported.
onDeviceError_releasesDevice(hasMessage) ==
    /\ log' = Append(log, IF hasMessage THEN "Uncaptured device error (msg)"
                          ELSE "Uncaptured device error")
    /\ calls' = Append(calls, Call("wgpuDeviceRelease", "device", context.device))
    /\ released' = [released EXCEPT !.device = @ + 1]
    /\ context' = [context EXCEPT !.device = "NULL"]

\* onDeviceError: fprintf only.
onDeviceError(hasMessage) ==
    /\ log' = Append(log, IF hasMessage THEN "Uncaptured device error (msg)"
                          ELSE "Uncaptured device error")
    /\ UNCHANGED << calls, context, released >>

\* wgpuDeviceSetUncapturedErrorCallback has been called on a real device.
ErrorCallbackSet ==
    \E i \in 1..Len(calls) :
        calls[i].fn = "wgpuDeviceSetUncapturedErrorCallback" /\ calls[i].arg = "h"

\* The backend reports the loss of the device: at most once, at any time
\* after the device came into being, also after it was released (the
\* reason is then Destroyed).
DeviceLost ==
    /\ lostState = "armed"
    /\ CanDeliver
    /\ lostState' = "fired"
    /\ \E hasMessage \in BOOLEAN :
          onDeviceLost(IF released.device > 0 THEN "Destroyed" ELSE "Unknown",
                       hasMessage)
    /\ UNCHANGED << env, pc, halt, exitStatus, instance, adapter, initResult,
                    requests, surfaceDesc, windowing, inspector, errCount, unhandledErrors >>

\* The backend raises an uncaptured error on the device; it reaches
\* onDeviceError only if the callback has been registered by then.
DeviceError ==
    /\ lostState # "unarmed"
    /\ errCount < MaxErrors
    /\ CanDeliver
    /\ errCount' = errCount + 1
    /\ IF ErrorCallbackSet
       THEN /\ \E hasMessage \in BOOLEAN : onDeviceError(hasMessage)
            /\ UNCHANGED unhandledErrors
       ELSE /\ unhandledErrors' = unhandledErrors + 1
            /\ UNCHANGED << log, calls, context, released >>
    /\ UNCHANGED << env, pc, halt, exitStatus, instance, adapter, initResult,
                    requests, surfaceDesc, windowing, inspector, lostState >>

-----------------------------------------------------------------------------
(* Teardown.                                                               *)

\* closeContext: wgpuQueueRelease(context->queue), wgpuDeviceRelease(
\* context->device), then closeSDL (SDL_DestroyWindow, context->window =
\* NULL, SDL_Quit).  queue and device keep their values; context->surface
\* is not mentioned.  oq / od: what the release of a NULL queue / device does.
CloseContextCalls(ctx, oq, od) ==
    << Call("wgpuQueueRelease", "queue", ctx.queue) >>
    \o (IF oq = "crash" THEN << >>
        ELSE << Call("wgpuDeviceRelease", "device", ctx.device) >>
             \o (IF od = "crash" THEN << >>
                 ELSE << Call("SDL_DestroyWindow", "window", ctx.window),
                         Call("SDL_Quit", "none", "h") >>))

\* The objects a sequence of calls releases, counted per object.
ReleasesIn(cs, obj) ==
    Cardinality({i \in 1..Len(cs) :
        /\ cs[i].fn \in {"wgpuInstanceRelease", "wgpuAdapterRelease",
                         "wgpuQueueRelease", "wgpuDeviceRelease",
                         "wgpuSurfaceRelease", "SDL_DestroyWindow"}
        /\ cs[i].obj = obj
        /\ cs[i].arg # "NULL"})

closeContext ==
    /\ Op = "closeContext"
    /\ \E oq \in NullOutcomes(context.queue), od \in NullOutcomes(context.device) :
          LET cs == CloseContextCalls(context, oq, od)
              crashed == oq = "crash" \/ od = "crash" IN
          /\ calls' = calls \o cs
          /\ released' = [o \in Objects |-> released[o] + ReleasesIn(cs, o)]
          /\ context' = IF crashed THEN context
                        ELSE [context EXCEPT !.window = "NULL"]
          /\ IF crashed THEN Crash
             ELSE \E again \in (IF CountCalls("SDL_Quit") + 1 < MaxCloseCalls
                                THEN BOOLEAN ELSE {FALSE}) :
                     IF again THEN UNCHANGED << pc, halt, exitStatus >>
                     ELSE Advance
    /\ UNCHANGED << env, instance, adapter, initResult, requests, log,
                    surfaceDesc, windowing, inspector, notifs >>

-----------------------------------------------------------------------------
Next ==
    \/ createSDLWindow
    \/ wgpuCreateInstance
    \/ create_wgpu_surface
    \/ wgpuInstanceCreateSurface
    \/ wgpuInstanceRequestAdapter
    \/ AdapterRequestEnds
    \/ busyWaitAdapter
    \/ emscriptenWaitAdapter
    \/ adapterRequestReturn
    \/ wgpuInstanceRelease
    \/ inspectAdapter
    \/ wgpuAdapterRequestDevice
    \/ DeviceRequestEnds
    \/ emscriptenWaitDevice
    \/ deviceRequestReturn
    \/ wgpuDeviceSetUncapturedErrorCallback
    \/ wgpuAdapterRelease
    \/ wgpuSurfaceConfigure
    \/ inspectDevice
    \/ wgpuDeviceGetQueue
    \/ wgpuQueueOnSubmittedWorkDone
    \/ initAppReturn
    \/ submitCommand
    \/ tickDevice
    \/ wgpuQueueRelease
    \/ wgpuDeviceRelease
    \/ returnFromMain
    \/ DeviceLost
    \/ DeviceError

Spec == Init /\ [][Next]_vars

-----------------------------------------------------------------------------
(* Teardown on its own: closeContext applied to every Context initApp can  *)
(* leave behind (no window: nothing else; no device: no queue), with the   *)
(* device-lost notification free to arrive before, between and after.      *)

TeardownContexts ==
    {c \in [window : {"NULL", "h"}, device : {"NULL", "h"},
            queue : {"NULL", "h"}, surface : {"NULL", "h"}] :
        /\ c.window = "NULL" => c.device = "NULL" /\ c.surface = "NULL"
        /\ c.device = "NULL" => c.queue = "NULL"}

TeardownInit ==
    /\ variant = "part_000"
    /\ emscripten \in BOOLEAN
    /\ delivery = "sync"
    /\ gpu = [limitsOk |-> TRUE, featureCount |-> MaxFeatureCount]
    /\ pc = IndexOf("part_000", "closeContext")
    /\ halt = "running"
    /\ exitStatus = 0
    /\ instance = "NULL"
    /\ adapter = "NULL"
    /\ context \in TeardownContexts
    /\ initResult = IF context.window = "h" /\ context.queue = "h"
                    THEN "true" ELSE "false"
    /\ adapterData = [adapter |-> "NULL", requestEnded |-> FALSE, live |-> FALSE]
    /\ deviceData = [device |-> "NULL", requestEnded |-> FALSE, live |-> FALSE]
    /\ pending = {}
    /\ returned = {}
    /\ reported = [adapter |-> "none", device |-> "none"]
    /\ staleWrites = 0
    /\ released = [o \in Objects |-> 0]
    /\ calls = << >>
    /\ log = << >>
    /\ surfaceDesc = NoSurfaceDesc
    /\ windowing = "unset"
    /\ reports = [adapter |-> NoReport, device |-> NoReport]
    /\ heapLive = 0
    /\ lostState = IF context.device = "h" THEN "armed" ELSE "unarmed"
    /\ errCount = 0
    /\ unhandledErrors = 0

TeardownNext ==
    \/ closeContext
    \/ returnFromMain
    \/ DeviceLost

SpecTeardown == TeardownInit /\ [][TeardownNext]_vars

-----------------------------------------------------------------------------
(* Claims.                                                                 *)

ReturnedHandle(req) == \E r \in returned : r.req = req /\ r.result = "h"

\* Position in `calls` of the first release of a valid handle of obj; 0 if none.
ReleaseIndex(fn) ==
    IF \E i \in 1..Len(calls) : calls[i].fn = fn /\ calls[i].arg = "h"
    THEN CHOOSE i \in 1..Len(calls) :
            /\ calls[i].fn = fn /\ calls[i].arg = "h"
            /\ \A j \in 1..(i - 1) : ~(calls[j].fn = fn /\ calls[j].arg = "h")
    ELSE 0

\* C1: whichever way the backend delivers the completion (inside the request
\* call or later), a result that requestAdapterSync or requestDeviceSync has
\* returned was returned with the completion flag true and with the
\* completion handler of that request already run.
C1_NoResultBeforeCompletion ==
    \A r \in returned : r.flag /\ ~r.inflight

\* C1 witness: on a backend that completes later, both wrappers have
\* returned a handle.
C1_Witness ==
    /\ delivery = "async"
    /\ ReturnedHandle("adapter")
    /\ ReturnedHandle("device")

\* C2 as claimed: in initWebGPU, once the adapter request has completed
\* without Success, no device request, surface configuration or queue
\* retrieval is ever issued.
C2_ShortCircuitOnAdapterFailure ==
    (variant = "part_000" /\ reported.adapter = "Error")
        => /\ ~HasCall("wgpuAdapterRequestDevice")
           /\ ~HasCall("wgpuSurfaceConfigure")
           /\ ~HasCall("wgpuDeviceGetQueue")

\* C3 as claimed: once the adapter request has reported an error, the
\* process ends only by exit status 1, with the instance released.
C3_AdapterErrorExitsWithOne ==
    (reported.adapter = "Error" /\ halt \in {"exited", "crashed"})
        => /\ halt = "exited"
           /\ exitStatus = 1
           /\ released.instance = 1

\* C4: no object of the chain is released more than once, and a device is
\* never released while a queue retrieved from it is still unreleased.
C4_QueueBeforeDeviceReleasedOnce ==
    /\ \A o \in Objects : released[o] <= 1
    /\ (released.device > 0 /\ context.queue = "h")
          => /\ released.queue > 0
             /\ ReleaseIndex("wgpuQueueRelease") < ReleaseIndex("wgpuDeviceRelease")

\* C4 witness: queue and device have both been released.
C4_Witness ==
    /\ released.queue = 1
    /\ released.device = 1
    /\ halt = "exited"

FullyInitialized ==
    /\ context.queue = "h"
    /\ context.device = "h"
    /\ context.surface = "h"

\* C6 as claimed: once closeContext has run to its end on a fully
\* initialized Context, the queue, the device and the surface have been
\* released, in that order.
C6_TeardownReleasesQueueDeviceSurface ==
    (HasCall("SDL_Quit") /\ FullyInitialized)
        => /\ released.queue >= 1 /\ released.device >= 1 /\ released.surface >= 1
           /\ ReleaseIndex("wgpuQueueRelease") < ReleaseIndex("wgpuDeviceRelease")
           /\ ReleaseIndex("wgpuDeviceRelease") < ReleaseIndex("wgpuSurfaceRelease")

\* initWebGPU was entered with a window on a windowing backend the binder
\* supports, and both requests completed with Success.
HappyPathInputs ==
    /\ variant = "part_000"
    /\ context.window = "h"
    /\ windowing = "supported"
    /\ reported.adapter = "Success"
    /\ reported.device = "Success"

\* C7 as claimed: with a valid window, a supported windowing backend and
\* Success reported for the adapter and the device request, once initWebGPU
\* has returned true the Context holds a non-null device, queue and surface.
C7_InitPopulatesContext ==
    (HappyPathInputs /\ initResult = "true")
        => /\ context.device = "h"
           /\ context.queue = "h"
           /\ context.surface = "h"

\* C8 as claimed: whenever create_wgpu_surface reaches the call of
\* wgpuInstanceCreateSurface, the active windowing backend is one of the
\* four supported ones and the chained descriptor carries its tag.
C8_DescriptorTagMatchesBackend ==
    (Op = "wgpuInstanceCreateSurface" /\ halt = "running")
        => LET backend == ActiveBackend(surfaceDesc.platform, surfaceDesc.driver) IN
           /\ backend # "unknown"
           /\ surfaceDesc.tag = ExpectedTag(backend)

\* C9: a device-lost notification delivered after the device has been
\* released appends one line to the log and does nothing else: no backend
\* call is made, no handle is read, the Context and the release counts stay
\* as they were.
C9_DeviceLostOnlyLogs ==
    [][(lostState = "armed" /\ lostState' = "fired" /\ released.device > 0)
          => /\ Len(log') = Len(log) + 1
             /\ calls' = calls
             /\ context' = context
             /\ released' = released
             /\ instance' = instance /\ adapter' = adapter]_vars

\* C9 witness: the notification has arrived after the release of the
\* device, with reason Destroyed, and has been logged.
C9_Witness ==
    /\ lostState = "fired"
    /\ released.device = 1
    /\ \E i \in 1..Len(log) :
          log[i] \in {"Device lost: reason Destroyed",
                      "Device lost: reason Destroyed (msg)"}

\* wgpuCreateInstance returned no instance.
InstanceFailed ==
    /\ Len(calls) >= 1
    /\ calls[1].fn = "wgpuCreateInstance"
    /\ calls[1].arg = "NULL"

\* C10 as claimed: in every main, after wgpuCreateInstance has returned
\* null no further backend call is made and the process can only end by
\* exit status 1; a run that got its instance and returns, returns 0.
C10_ExitStatusOnInstanceFailure ==
    /\ InstanceFailed
          => /\ Len(calls) = 1
             /\ halt \in {"running", "exited"}
             /\ halt = "exited" => exitStatus = 1
    /\ (halt = "exited" /\ ~InstanceFailed) => exitStatus = 0

\* C11 as claimed: a wrapper that returns after the backend reported a
\* failed request hands its caller something other than the null handle.
C11_FailureSurfacedNotNull ==
    \A r \in returned : reported[r.req] = "Error" => r.result # "NULL"

\* C12 as claimed: as long as the backend has not run the completion
\* handler of a request, the wrapper that issued it has not returned and the
\* process has not terminated.
C12_BlockedWhilePending ==
    \A req \in pending :
        /\ halt = "running"
        /\ ~\E r \in returned : r.req = req

-----------------------------------------------------------------------------
(* The inspectors on their own: inspectAdapter and inspectDevice called      *)
(* again and again by a caller that holds an adapter and a device.           *)

MaxInspections == 2

\* Calls of inspectAdapter / inspectDevice made so far: each call enumerates
\* once for the count, and once more, followed by the properties / limits
\* query, when it got its buffer.
AdapterInspections ==
    CountCalls("wgpuAdapterEnumerateFeatures") - CountCalls("wgpuAdapterGetProperties")

DeviceInspections ==
    CountCalls("wgpuDeviceEnumerateFeatures") - CountCalls("wgpuDeviceGetLimits")

InspectInit ==
    /\ variant \in Variants
    /\ emscripten \in BOOLEAN
    /\ delivery = "sync"
    /\ gpu \in [limitsOk : BOOLEAN, featureCount : 0..MaxFeatureCount]
    /\ pc = IndexOf(variant, "inspectAdapter")
    /\ halt = "running"
    /\ exitStatus = 0
    /\ instance = "h"
    /\ adapter = "h"
    /\ context = [window |-> "NULL", device |-> "h", queue |-> "NULL",
                  surface |-> "NULL"]
    /\ initResult = "unset"
    /\ adapterData = [adapter |-> "h", requestEnded |-> TRUE, live |-> FALSE]
    /\ deviceData = [device |-> "h", requestEnded |-> TRUE, live |-> FALSE]
    /\ pending = {}
    /\ returned = {}
    /\ reported = [adapter |-> "Success", device |-> "Success"]
    /\ staleWrites = 0
    /\ released = [o \in Objects |-> 0]
    /\ calls = << >>
    /\ log = << >>
    /\ surfaceDesc = NoSurfaceDesc
    /\ windowing = "unset"
    /\ reports = [adapter |-> NoReport, device |-> NoReport]
    /\ heapLive = 0
    /\ lostState = "unarmed"
    /\ errCount = 0
    /\ unhandledErrors = 0

callInspectAdapter ==
    /\ AdapterInspections < MaxInspections
    /\ inspectAdapterBody(UNCHANGED << pc, halt, exitStatus >>)

callInspectDevice ==
    /\ variant # "main_c"
    /\ DeviceInspections < MaxInspections
    /\ inspectDeviceBody(UNCHANGED << pc, halt, exitStatus >>)

InspectNext ==
    \/ callInspectAdapter
    \/ callInspectDevice

SpecInspect == InspectInit /\ [][InspectNext]_vars

\* The step is a call of inspectAdapter / inspectDevice.
AdapterInspected == AdapterInspections' = AdapterInspections + 1
DeviceInspected == DeviceInspections' = DeviceInspections + 1

CallIndex(fn) ==
    IF HasCall(fn)
    THEN CHOOSE i \in 1..Len(calls) :
            /\ calls[i].fn = fn
            /\ \A j \in 1..(i - 1) : calls[j].fn # fn
    ELSE 0

\* If b has been called, a was called before it.
Precedes(a, b) == HasCall(b) => (HasCall(a) /\ CallIndex(a) < CallIndex(b))

\* C14 as claimed: in initWebGPU the instance is created before the surface,
\* the surface before the adapter request, the adapter request before the
\* device request, the device request before the queue is retrieved, and
\* the queue is retrieved before the surface is configured.
C14_AcquisitionOrderQueueFirst ==
    variant = "part_000"
        => /\ Precedes("wgpuCreateInstance", "wgpuInstanceCreateSurface")
           /\ Precedes("wgpuInstanceCreateSurface", "wgpuInstanceRequestAdapter")
           /\ Precedes("wgpuInstanceRequestAdapter", "wgpuAdapterRequestDevice")
           /\ Precedes("wgpuAdapterRequestDevice", "wgpuDeviceGetQueue")
           /\ Precedes("wgpuDeviceGetQueue", "wgpuSurfaceConfigure")

\* C14 amended: the same order up to the device request; then the surface
\* is configured, and the queue is retrieved after that.
C14_AcquisitionOrderConfigureFirst ==
    variant = "part_000"
        => /\ Precedes("wgpuCreateInstance", "wgpuInstanceCreateSurface")
           /\ Precedes("wgpuInstanceCreateSurface", "wgpuInstanceRequestAdapter")
           /\ Precedes("wgpuInstanceRequestAdapter", "wgpuAdapterRequestDevice")
           /\ Precedes("wgpuAdapterRequestDevice", "wgpuSurfaceConfigure")
           /\ Precedes("wgpuSurfaceConfigure", "wgpuDeviceGetQueue")

\* C14 witness: initWebGPU has gone through all six steps and returned true.
C14_Witness ==
    /\ variant = "part_000"
    /\ initResult = "true"
    /\ HasCall("wgpuSurfaceConfigure")
    /\ HasCall("wgpuDeviceGetQueue")
    /\ context.queue = "h"

\* The backend calls made after the adapter request and before the release
\* of the instance (up to now, if the instance has not been released yet).
CallsBeforeInstanceRelease ==
    LET first == CallIndex("wgpuInstanceRequestAdapter") + 1
        last  == IF HasCall("wgpuInstanceRelease")
                 THEN CallIndex("wgpuInstanceRelease") - 1
                 ELSE Len(calls) IN
    IF HasCall("wgpuInstanceRequestAdapter")
    THEN {calls[j].fn : j \in first..last}
    ELSE {}

AdapterInspectorCalls ==
    {"wgpuAdapterGetLimits", "wgpuAdapterEnumerateFeatures",
     "wgpuAdapterGetProperties"}

C16_AdapterNotUsedAfterRelease ==
    /\ released.adapter <= 1
    /\ CountCalls("wgpuAdapterRelease") <= 1
    /\ (HasCall("wgpuAdapterRelease") /\ variant # "main_c")
          => /\ Precedes("wgpuAdapterRequestDevice", "wgpuAdapterRelease")
             /\ \E r \in returned : r.req = "device"
    /\ HasCall("wgpuAdapterRelease")
          => \A j \in (CallIndex("wgpuAdapterRelease") + 1)..Len(calls) :
                calls[j].obj # "adapter"

\* C16 witness: the adapter has been released after the device was obtained,
\* and the program has gone on to work with the device.
C16_Witness ==
    /\ released.adapter = 1
    /\ context.device = "h"
    /\ HasCall("wgpuDeviceGetLimits")
    /\ CallIndex("wgpuAdapterRelease") < CallIndex("wgpuDeviceGetLimits")

\* C17 as claimed: from the moment the device exists its uncaptured-error
\* callback is installed, so no uncaptured error ever finds no handler.
C17_ErrorHandlerFromCreation ==
    /\ lostState # "unarmed" => ErrorCallbackSet
    /\ unhandledErrors = 0

\* C18 as claimed: once initWebGPU has returned false, every GPU object it
\* had acquired (device, surface) has been released, and nothing that was
\* never created has been passed to a release.
C18_FailureReleasesAcquiredPrefix ==
    (variant = "part_000" /\ initResult = "false")
        => /\ context.device = "h" => released.device >= 1
           /\ context.surface = "h" => released.surface >= 1
           /\ \A i \in 1..Len(calls) :
                 calls[i].fn \in {"wgpuQueueRelease", "wgpuDeviceRelease",
                                  "wgpuSurfaceRelease"}
                    => calls[i].arg # "NULL"

DeviceOrQueueOperations ==
    {"wgpuDeviceCreateCommandEncoder", "wgpuQueueSubmit", "wgpuDeviceTick"}

\* C19 as claimed: a command encoder is created, a command is submitted and
\* the device is ticked only on handles that exist, and in part_000 only
\* when initApp has reported success.
C19_NoOperationAfterFailedInit ==
    \A i \in 1..Len(calls) :
        calls[i].fn \in DeviceOrQueueOperations
            => /\ calls[i].arg # "NULL"
               /\ variant = "part_000" => initResult = "true"

\* C20: whether the backend completes the adapter request inside the call
\* or later, wgpuInstanceRelease is called only when the adapter request has
\* been issued and its completion handler has run.
C20_InstanceOutlivesAdapterRequest ==
    HasCall("wgpuInstanceRelease")
        => /\ Precedes("wgpuInstanceRequestAdapter", "wgpuInstanceRelease")
           /\ "adapter" \notin pending
           /\ reported.adapter # "none"

\* C20 witness: on a backend that completes later, the adapter request has
\* completed and the instance has then been released.
C20_Witness ==
    /\ delivery = "async"
    /\ released.instance = 1
    /\ adapter = "h"

\* C21: no completion handler writes to a request record whose wrapper has
\* returned: a request that is still to complete has its record alive, and
\* no write to a dead record has happened.
C21_NoWriteAfterWrapperReturn ==
    /\ staleWrites = 0
    /\ "adapter" \in pending => adapterData.live
    /\ "device" \in pending => deviceData.live

\* C21 witness: on a backend that completes later, the handler has written
\* the adapter into the record, and the wrapper has then returned it and
\* left the record behind.
C21_Witness ==
    /\ delivery = "async"
    /\ adapterData.requestEnded
    /\ ~adapterData.live
    /\ adapterData.adapter = "h"
    /\ "adapter" \notin pending

\* C22 as claimed: in the browser, as long as a request is still to
\* complete, the wrapper that waits for it is yielding to the event loop, so
\* that the backend can run the completion handler.
C22_WaitYieldsInBrowser ==
    (emscripten /\ pending # {} /\ halt = "running") => Yielding

\* C23 as claimed: in the browser requestDeviceSync gets past its wait loop
\* only when the device request's own flag, deviceData.requestEnded, is set.
C23_DeviceWaitOnOwnFlag ==
    (emscripten /\ Op = "deviceRequestReturn") => deviceData.requestEnded

\* C24 as claimed: in every program that retrieves the queue, once the
\* queue has been retrieved the work-done notification is registered on a
\* queue that exists, and no later call is made on an absent queue.
C24_AbsentQueueNeverUsed ==
    HasCall("wgpuDeviceGetQueue")
        => \A i \in (CallIndex("wgpuDeviceGetQueue") + 1)..Len(calls) :
              calls[i].obj = "queue" => calls[i].arg # "NULL"

\* C25 as claimed: closeContext issues no release call for a queue or a
\* device that the Context does not hold.
C25_TeardownSkipsAbsentObjects ==
    \A i \in 1..Len(calls) :
        calls[i].fn \in {"wgpuQueueRelease", "wgpuDeviceRelease"}
            => calls[i].arg # "NULL"

\* C26 as claimed: create_wgpu_surface reaches the call of
\* wgpuInstanceCreateSurface only with a descriptor whose native window
\* handle was found.
C26_NoSurfaceCallOnNullHandle ==
    (Op = "wgpuInstanceCreateSurface" /\ halt = "running")
        => ~surfaceDesc.nativeNull

\* C27 as claimed: no feature buffer allocated by inspectAdapter or
\* inspectDevice is still allocated once the inspector has returned.
C27_InspectorFreesItsBuffer ==
    heapLive = 0

\* C28: when the backend's limits query fails, a call of inspectAdapter or
\* inspectDevice on a handle that exists reports no limits, still reports
\* the features (and, for the adapter, the properties) if it got its buffer,
\* and returns to a caller that goes on with its next step.
C28_FailedLimitsQueryNotFatal ==
    [][/\ (AdapterInspected /\ adapter = "h" /\ ~gpu.limitsOk)
             => /\ halt' = "running"
                /\ pc' = pc + 1
                /\ ~reports'.adapter.limits
                /\ log' = log => /\ reports'.adapter.features = gpu.featureCount
                                 /\ reports'.adapter.properties
       /\ (DeviceInspected /\ context.device = "h" /\ ~gpu.limitsOk)
             => /\ halt' = "running"
                /\ pc' = pc + 1
                /\ ~reports'.device.limits
                /\ log' = log => reports'.device.features = gpu.featureCount]_vars

\* C28 witness: on a backend whose limits queries fail, both inspectors
\* have reported the features and initWebGPU has gone on to return true.
C28_Witness ==
    /\ ~gpu.limitsOk
    /\ ~emscripten
    /\ reports.adapter.properties
    /\ reports.adapter.features = MaxFeatureCount
    /\ reports.device.features = MaxFeatureCount
    /\ initResult = "true"

\* The step is a call of inspectAdapter / inspectDevice whose malloc
\* returned NULL: the allocation diagnostic is the line it adds to the log.
AdapterAllocationFailed ==
    /\ Len(log') = Len(log) + 1
    /\ log'[Len(log')] = "Failed to allocate ADAPTER feature list"

DeviceAllocationFailed ==
    /\ Len(log') = Len(log) + 1
    /\ log'[Len(log')] = "Failed to allocate DEVICE feature list"

\* The step makes one enumeration call, the one that asks for the count.
OneEnumeration(fn) == CountCalls(fn)' = CountCalls(fn) + 1

\* C29 as claimed: an inspector whose allocation fails makes no fill
\* enumeration, still reports what needs no buffer (the adapter's limits and
\* properties, the device's limits), and its caller goes on.
C29_AllocationFailureKeepsBufferlessParts ==
    [][/\ AdapterAllocationFailed
             => /\ OneEnumeration("wgpuAdapterEnumerateFeatures")
                /\ halt' = "running" /\ pc' = pc + 1
                /\ reports'.adapter.limits = (~emscripten /\ gpu.limitsOk)
                /\ reports'.adapter.properties
       /\ DeviceAllocationFailed
             => /\ OneEnumeration("wgpuDeviceEnumerateFeatures")
                /\ halt' = "running" /\ pc' = pc + 1
                /\ reports'.device.limits = gpu.limitsOk]_vars

\* C29 amended: an inspector whose allocation fails makes no fill
\* enumeration, logs the failure and returns at once: inspectAdapter has
\* reported the limits only (no features, no properties), inspectDevice has
\* reported nothing; the caller goes on with its next step.
C29_AllocationFailureReturnsAtOnce ==
    [][/\ AdapterAllocationFailed
             => /\ OneEnumeration("wgpuAdapterEnumerateFeatures")
                /\ CountCalls("wgpuAdapterGetProperties")'
                      = CountCalls("wgpuAdapterGetProperties")
                /\ halt' = "running" /\ pc' = pc + 1
                /\ reports'.adapter = [limits |-> ~emscripten /\ gpu.limitsOk,
                                       features |-> -1, properties |-> FALSE]
       /\ DeviceAllocationFailed
             => /\ OneEnumeration("wgpuDeviceEnumerateFeatures")
                /\ CountCalls("wgpuDeviceGetLimits")' = CountCalls("wgpuDeviceGetLimits")
                /\ halt' = "running" /\ pc' = pc + 1
                /\ reports'.device = NoReport]_vars

\* C29 witness: both inspectors failed to allocate, the adapter's limits
\* were reported all the same, and initWebGPU has gone on to return true.
C29_Witness ==
    /\ \E i \in 1..Len(log) : log[i] = "Failed to allocate ADAPTER feature list"
    /\ \E i \in 1..Len(log) : log[i] = "Failed to allocate DEVICE feature list"
    /\ reports.adapter.limits
    /\ initResult = "true"

\* C30: every acquisition step is one-shot: a step that issues
\* wgpuInstanceRequestAdapter or wgpuAdapterRequestDevice is the first to
\* issue it in this run, so neither request is made twice, whether the first
\* one succeeded or failed.
C30_RequestsIssuedOnce ==
    [][/\ CountCalls("wgpuInstanceRequestAdapter")' # CountCalls("wgpuInstanceRequestAdapter")
             => /\ CountCalls("wgpuInstanceRequestAdapter") = 0
                /\ CountCalls("wgpuInstanceRequestAdapter")' = 1
       /\ CountCalls("wgpuAdapterRequestDevice")' # CountCalls("wgpuAdapterRequestDevice")
             => /\ CountCalls("wgpuAdapterRequestDevice") = 0
                /\ CountCalls("wgpuAdapterRequestDevice")' = 1]_vars

\* C30 witness: the adapter request failed, the program ran on to its end,
\* and it had asked for an adapter once and for a device once.
C30_Witness ==
    /\ reported.adapter = "Error"
    /\ halt # "running"
    /\ CountCalls("wgpuInstanceRequestAdapter") = 1
    /\ CountCalls("wgpuAdapterRequestDevice") = 1

\* The step is a run of the registered onDeviceError handler.
ErrorHandled ==
    /\ errCount' = errCount + 1
    /\ unhandledErrors' = unhandledErrors

\* C31: every run of onDeviceError, the first and any later one, adds one
\* line to the log and changes nothing else: the Context (device, queue,
\* surface), the instance and adapter, the release counts, the backend calls
\* made, the position of main and its termination state stay as they were.
C31_DeviceErrorOnlyLogs ==
    [][ErrorHandled
          => /\ Len(log') = Len(log) + 1
             /\ context' = context
             /\ instance' = instance /\ adapter' = adapter
             /\ released' = released
             /\ calls' = calls
             /\ pc' = pc /\ halt' = halt /\ exitStatus' = exitStatus
             /\ initResult' = initResult
             /\ lostState' = lostState]_vars

\* C31 witness: the handler has run twice on a live device, and main is
\* still running with the device, queue and surface of a successful
\* initialization.
C31_Witness ==
    /\ errCount = 2
    /\ unhandledErrors = 0
    /\ Cardinality({i \in 1..Len(log) :
           log[i] \in {"Uncaptured device error", "Uncaptured device error (msg)"}}) = 2
    /\ halt = "running"
    /\ released.device = 0
    /\ context.device = "h" /\ context.queue = "h" /\ context.surface = "h"

\* C32 as claimed: the SDL-window program does not stay in its run phase:
\* when initialization has succeeded and main has reached the main loop that
\* follows the device ticks, it has a step to take that moves it on, towards
\* closeContext and `return 0`.
C32_MainLoopLeadsToTeardown ==
    (variant = "part_000" /\ initResult = "true" /\ Op = "mainLoop")
        => ENABLED (Next /\ pc' # pc)

\* C33 as claimed: closeContext is idempotent: over any number of calls on the
\* same Context the queue and the device are each released at most once.
C33_CloseContextIdempotent ==
    /\ released.queue <= 1
    /\ released.device <= 1

\* C34 as claimed: once initWebGPU has returned, it has returned true only
\* with the device, the queue and the surface of the Context all present;
\* with any of the three absent it has returned false.
C34_TrueOnlyWithAllThree ==
    /\ initResult = "true"
          => context.device = "h" /\ context.queue = "h" /\ context.surface = "h"
    /\ (/\ initResult # "unset"
        /\ "NULL" \in {context.device, context.queue, context.surface})
          => initResult = "false"

\* wgpuCreateInstance returned an instance.
InstanceCreated ==
    \E i \in 1..Len(calls) : calls[i].fn = "wgpuCreateInstance" /\ calls[i].arg = "h"

\* C35: in initWebGPU, wgpuInstanceRelease is called at most once; when the
\* function has returned (true or false) after a successful instance
\* creation, the instance has been released exactly once; and no backend
\* call made after the release is a call on the instance.
C35_InstanceReleasedOnceBeforeReturn ==
    variant = "part_000"
        => /\ CountCalls("wgpuInstanceRelease") <= 1
           /\ (InstanceCreated /\ initResult # "unset") => released.instance = 1
           /\ HasCall("wgpuInstanceRelease")
                 => \A i \in (CallIndex("wgpuInstanceRelease") + 1)..Len(calls) :
                        calls[i].obj # "instance"

\* C35 witness: initWebGPU has created the surface and requested the adapter
\* on the instance, released the instance, and then returned false for want
\* of a queue.
C35_Witness ==
    /\ variant = "part_000"
    /\ InstanceCreated
    /\ HasCall("wgpuInstanceCreateSurface")
    /\ HasCall("wgpuInstanceRequestAdapter")
    /\ released.instance = 1
    /\ HasCall("wgpuDeviceGetQueue")
    /\ initResult = "false"

C37_EmptyFeatureListIsNotAFailure ==
    [][(/\ CountCalls("wgpuAdapterEnumerateFeatures")'
              > CountCalls("wgpuAdapterEnumerateFeatures")
        /\ adapter = "h"
        /\ gpu.featureCount = 0)
          => /\ log' = log
             /\ reports'.adapter.properties
             /\ reports'.adapter.features = 0]_vars

====
